---- MODULE Spec2Model ----
(***************************************************************************)
(* Section detection engine of PaperIQ (src/src/parsers/section_detector.py)*)
(*                                                                         *)
(* Confidences are held in hundredths (0.70 is 70), so that the sums,      *)
(* the 0.95 cap and the comparisons of the code are exact integer          *)
(* arithmetic.  The quality score is held as an exact fraction.            *)
(***************************************************************************)
EXTENDS Integers, Sequences, FiniteSets, TLC

VARIABLES
    pc,               \* which call is in progress / has returned
    full_text,        \* detect_sections: full_text, a sequence of tokens
    text_blocks,      \* detect_sections: text_blocks
    pattern_matches,  \* _find_section_headers: pattern_matches
    layout_matches,   \* _find_section_headers: layout_matches
    pairing,          \* _combine_matches: per pattern match, index of best_layout (0 = None)
    combined,         \* _combine_matches: combined
    matches,          \* _find_section_headers: matches after _deduplicate_matches
    sections,         \* detect_sections result / calculate_detection_quality argument
    quality,          \* calculate_detection_quality: its locals and result
    detector,         \* the SectionDetector instance: config, text_cleaner, _compiled_patterns
    calls,            \* the methods detect_sections has invoked in the current call, in order
    served,           \* the calls completed on the instance: their inputs and results
    thread            \* concurrent invocations: the locals of each thread

vars == <<pc, full_text, text_blocks, pattern_matches, layout_matches,
          pairing, combined, matches, sections, quality,
          detector, calls, served, thread>>

(***************************************************************************)
(* Bounds of the model                                                     *)
(***************************************************************************)
MaxPattern == 2
MaxLayout == 2
MaxSections == 3
MaxLines == 4
MaxBlocks == 2
MaxRepeat == 8
MaxCalls == 3
MaxThreads == 2

(***************************************************************************)
(* Program constants.  Confidences and thresholds in hundredths, the       *)
(* weights of the score and the font ratio 1.2 in tenths.                  *)
(***************************************************************************)
PatternConfidence == 70
ProximityWindow == 500
ConfidenceCap == 95
AgreementPenalty == 20
CompletenessWeight == 6
ConfidenceWeight == 4
HighThreshold == 75
MediumThreshold == 50
HeaderFontRatio == 12
MaxHeaderLength == 100
LayoutBaseConfidence == 50
LargeFontBonus == 20
BoldBonus == 15
min_section_length == 50

Min(a, b) == IF a < b THEN a ELSE b
Abs(a) == IF a < 0 THEN 0 - a ELSE a

BoundedSeq(S, n) == UNION {[1..k -> S] : k \in 0..n}

(***************************************************************************)
(* SectionType (models/paper_model.py) and SectionMatch                    *)
(***************************************************************************)
all_expected ==
    <<"abstract", "introduction", "methodology", "results",
      "discussion", "conclusion", "references">>

SectionMatch(section_type, header_text, position, confidence, method, font_size, is_bold) ==
    [section_type |-> section_type, header_text |-> header_text,
     position |-> position, confidence |-> confidence, method |-> method,
     font_size |-> font_size, is_bold |-> is_bold]

(***************************************************************************)
(* _combine_matches                                                        *)
(***************************************************************************)
\* line 369: "distance < 500"
InWindowInclusive(distance) == distance <= ProximityWindow
InWindow(distance) == distance < ProximityWindow

\* line 378: min(0.95, pm.confidence + lm.confidence - 0.2)
UncappedConfidence(p, l) == p + l - AgreementPenalty
CombinedConfidence(p, l) == Min(ConfidenceCap, p + l - AgreementPenalty)

\* lines 366-371: the inner loop, from layout index i on, carrying best_layout
\* (its index, 0 for None) and best_distance (meaningful when best # 0)
RECURSIVE FindBestLayout(_, _, _, _, _)
FindBestLayout(pm, lms, i, best, best_distance) ==
    IF i > Len(lms) THEN best
    ELSE LET lm == lms[i]
             distance == Abs(pm.position - lm.position)
         IN IF /\ lm.section_type = pm.section_type
               /\ (best = 0 \/ distance < best_distance)
               /\ InWindow(distance)
            THEN FindBestLayout(pm, lms, i + 1, i, distance)
            ELSE FindBestLayout(pm, lms, i + 1, best, best_distance)

\* lines 380-388: the SectionMatch built for a pairing
TakeFontFromPattern(pm, lm) ==
    SectionMatch(pm.section_type, pm.header_text, pm.position,
                 CombinedConfidence(pm.confidence, lm.confidence),
                 "combined", pm.font_size, pm.is_bold)
CombinedMatch(pm, lm) ==
    SectionMatch(pm.section_type, pm.header_text, pm.position,
                 CombinedConfidence(pm.confidence, lm.confidence),
                 "combined", lm.font_size, lm.is_bold)

\* lines 361-390: best_layout of every pattern match
BestLayouts(pms, lms) ==
    [k \in 1..Len(pms) |-> FindBestLayout(pms[k], lms, 1, 0, 0)]

\* lines 373-390: the entry appended for pattern match k
PatternEntries(pms, lms, best) ==
    [k \in 1..Len(pms) |->
        IF best[k] # 0 THEN CombinedMatch(pms[k], lms[best[k]]) ELSE pms[k]]

\* line 376: used_layout after the first loop
UsedLayout(best) == {best[k] : k \in DOMAIN best} \ {0}

\* line 394: "if i not in used_layout"
KeepEveryLayout(i, used_layout) == TRUE
NotUsed(i, used_layout) == i \notin used_layout

\* lines 393-395: the remaining layout matches, in layout order
RECURSIVE RemainingLayout(_, _, _)
RemainingLayout(lms, used_layout, i) ==
    IF i > Len(lms) THEN <<>>
    ELSE (IF NotUsed(i, used_layout) THEN <<lms[i]>> ELSE <<>>)
         \o RemainingLayout(lms, used_layout, i + 1)

\* lines 361-397: the entries of the pattern matches, then the layout
\* matches that are left
LayoutsFirst(pms, lms) ==
    LET best == BestLayouts(pms, lms)
    IN RemainingLayout(lms, UsedLayout(best), 1) \o PatternEntries(pms, lms, best)
combine_matches(pms, lms) ==
    LET best == BestLayouts(pms, lms)
    IN PatternEntries(pms, lms, best) \o RemainingLayout(lms, UsedLayout(best), 1)

(***************************************************************************)
(* _deduplicate_matches                                                    *)
(***************************************************************************)
\* line 418: "existing is None or match.confidence > existing.confidence"
ReplacesOnTie(match, existing) == match.confidence >= existing.confidence
Replaces(match, existing) == match.confidence > existing.confidence

\* lines 414-419: best_matches as the list of its keys in insertion order and
\* the dict itself; a replaced value keeps the place of its key
RECURSIVE BestMatches(_, _, _, _)
BestMatches(ms, i, keys, best) ==
    IF i > Len(ms) THEN [keys |-> keys, best |-> best]
    ELSE LET match == ms[i]
             t == match.section_type
         IN IF t \notin DOMAIN best
            THEN BestMatches(ms, i + 1, Append(keys, t), (t :> match) @@ best)
            ELSE IF Replaces(match, best[t])
                 THEN BestMatches(ms, i + 1, keys, [best EXCEPT ![t] = match])
                 ELSE BestMatches(ms, i + 1, keys, best)

\* line 421: list(best_matches.values())
deduplicate_matches(ms) ==
    LET r == BestMatches(ms, 1, <<>>, <<>>)
    IN [k \in 1..Len(r.keys) |-> r.best[r.keys[k]]]

(***************************************************************************)
(* calculate_detection_quality                                             *)
(***************************************************************************)
Section(section_type, content_length, confidence, start_position, end_position) ==
    [section_type |-> section_type, content_length |-> content_length,
     confidence |-> confidence, start_position |-> start_position,
     end_position |-> end_position]

\* line 513: len(SectionType.all_expected())
total_possible == Len(all_expected)

\* line 514: sections_found = len(found_sections)
OneFound(found_sections) == 1
SectionsFound(found_sections) == Len(found_sections)

\* line 517: sum(s.confidence for s in found_sections), in hundredths
RECURSIVE SumConfidence(_)
SumConfidence(found_sections) ==
    IF found_sections = <<>> THEN 0
    ELSE Head(found_sections).confidence + SumConfidence(Tail(found_sections))

\* lines 524-529: the level of the score num / den
NeverMedium(num, den) ==
    IF 100 * num >= HighThreshold * den THEN "high" ELSE "low"
Level(num, den) ==
    IF 100 * num >= HighThreshold * den THEN "high"
    ELSE IF 100 * num >= MediumThreshold * den THEN "medium"
    ELSE "low"

\* lines 509-531.  completeness is sections_found / total_possible,
\* avg_confidence is sum / (100 * len), and the score
\* completeness * 0.6 + avg_confidence * 0.4 is the exact fraction
\* score_num / score_den.
calculate_detection_quality(found_sections) ==
    IF found_sections = <<>>
    THEN [score_num |-> 0, score_den |-> 1, level |-> "none"]
    ELSE LET sections_found == SectionsFound(found_sections)
             n == Len(found_sections)
             sum == SumConfidence(found_sections)
             num == CompletenessWeight * sections_found * 100 * n
                      + ConfidenceWeight * sum * total_possible
             den == 10 * total_possible * 100 * n
         IN [sections_found |-> sections_found,
             total_possible |-> total_possible,
             score_num |-> num, score_den |-> den,
             level |-> Level(num, den)]

CalculateDetectionQuality ==
    /\ pc = "returned"
    /\ quality' = calculate_detection_quality(sections)
    /\ pc' = "scored"
    /\ UNCHANGED <<full_text, text_blocks, pattern_matches, layout_matches,
                   pairing, combined, matches, sections,
                   detector, calls, served, thread>>

(***************************************************************************)
(* Text.  A text is a sequence of tokens, each standing for a run of       *)
(* characters of the length TokLen gives: a newline, a space, a header     *)
(* word, or a run of prose (words separated by single spaces, holding no   *)
(* newline, no header word, no digit-only or bracketed part and neither    *)
(* starting nor ending with white space) or a proper name.  Offsets are    *)
(* character offsets: the sum of the lengths of the tokens before.         *)
(***************************************************************************)
NL == "\n"
SP == " "
ShortProse == "prose49"
BodyProse == "prose50"
LongProse == "prose500"

\* the word Istanbul written with U+0130, the capital I with a dot above, as
\* its first letter, and what str.lower() makes of it: U+0130 becomes the two
\* code points "i" and U+0307, every other character becomes one code point
Istanbul == "Istanbul"
LowerIstanbul == "istanbul"

TokLen(t) ==
    CASE t = NL -> 1
      [] t = SP -> 1
      [] t = ShortProse -> 49
      [] t = BodyProse -> 50
      [] t = LongProse -> 500
      [] t \in {"Results", "RESULTS", "results"} -> 7
      [] t \in {"Discussion", "DISCUSSION", "discussion"} -> 10
      [] t \in {"Summary", "summary"} -> 7
      [] t \in {"Methods", "methods"} -> 7
      [] t = Istanbul -> 8
      [] t = LowerIstanbul -> 9

\* str.lower() of one token
Lower(t) ==
    CASE t \in {"Results", "RESULTS"} -> "results"
      [] t \in {"Discussion", "DISCUSSION"} -> "discussion"
      [] t = "Summary" -> "summary"
      [] t = "Methods" -> "methods"
      [] t = Istanbul -> LowerIstanbul
      [] OTHER -> t

LowerText(toks) == [i \in DOMAIN toks |-> Lower(toks[i])]

IsWhite(t) == t \in {SP, NL}

\* len(text)
RECURSIVE TextLen(_)
TextLen(toks) ==
    IF toks = <<>> THEN 0 ELSE TokLen(Head(toks)) + TextLen(Tail(toks))

\* the character offsets at which the tokens start, from offset start on;
\* the last entry is the offset of the end of the text
RECURSIVE Offsets(_, _)
Offsets(toks, start) ==
    IF toks = <<>> THEN <<start>>
    ELSE <<start>> \o Offsets(Tail(toks), start + TokLen(Head(toks)))

\* str.strip()
RECURSIVE LStrip(_)
LStrip(toks) ==
    IF toks # <<>> /\ IsWhite(Head(toks)) THEN LStrip(Tail(toks)) ELSE toks

RECURSIVE RStrip(_)
RStrip(toks) ==
    IF toks # <<>> /\ IsWhite(toks[Len(toks)])
    THEN RStrip(SubSeq(toks, 1, Len(toks) - 1))
    ELSE toks

Strip(toks) == RStrip(LStrip(toks))

\* text.split("\n"): the lines, the line being scanned last
RECURSIVE SplitFrom(_, _, _)
SplitFrom(toks, done, line) ==
    IF toks = <<>> THEN Append(done, line)
    ELSE IF Head(toks) = NL
         THEN SplitFrom(Tail(toks), Append(done, line), <<>>)
         ELSE SplitFrom(Tail(toks), done, Append(line, Head(toks)))

SplitLines(toks) == SplitFrom(toks, <<>>, <<>>)

\* "\n".join(lines)
RECURSIVE JoinLines(_)
JoinLines(lines) ==
    IF lines = <<>> THEN <<>>
    ELSE IF Len(lines) = 1 THEN lines[1]
    ELSE lines[1] \o <<NL>> \o JoinLines(Tail(lines))

\* text.find(sub, start) for a token-aligned start: the offset of the first
\* occurrence at or after character offset start, -1 when there is none
FindFrom(toks, sub, start) ==
    LET off == Offsets(toks, 0)
        hits == {i \in 1..(Len(toks) - Len(sub) + 1) :
                    /\ off[i] >= start
                    /\ SubSeq(toks, i, i + Len(sub) - 1) = sub}
    IN IF hits = {} THEN -1
       ELSE off[CHOOSE i \in hits : \A j \in hits : i <= j]

\* text[a:b], for offsets on token boundaries or beyond the end
Slice(toks, a, b) ==
    LET off == Offsets(toks, 0)
        keep == {i \in DOMAIN toks : off[i] >= a /\ off[i + 1] <= b}
    IN IF keep = {} THEN <<>>
       ELSE SubSeq(toks, CHOOSE i \in keep : \A j \in keep : i <= j,
                         CHOOSE i \in keep : \A j \in keep : i >= j)

(***************************************************************************)
(* _pattern_match                                                          *)
(***************************************************************************)
\* SECTION_PATTERNS, lines 44-95: for each kind its patterns in the order of
\* the table, a pattern being the stripped lines of the vocabulary
\* (lower-cased: the patterns are compiled with re.IGNORECASE) that it
\* matches.  Every pattern is anchored at both ends.
NoLine == {}
SECTION_PATTERNS ==
    [t \in {all_expected[k] : k \in DOMAIN all_expected} |->
        CASE t = "abstract" ->
               <<NoLine, {<<"summary">>}, NoLine>>
          [] t = "introduction" ->
               <<NoLine, NoLine, NoLine, NoLine>>
          [] t = "methodology" ->
               <<{<<"methods">>}, NoLine, NoLine, NoLine, NoLine,
                 {<<"methods">>}, {<<"methods">>}>>
          [] t = "results" ->
               <<{<<"results">>}, NoLine, NoLine, NoLine, NoLine,
                 {<<"results">>}, {<<"results">>}>>
          [] t = "discussion" ->
               <<{<<"discussion">>}, NoLine, NoLine,
                 {<<"discussion">>}, {<<"discussion">>}>>
          [] t = "conclusion" ->
               <<NoLine, NoLine, NoLine, NoLine, NoLine, NoLine>>
          [] t = "references" ->
               <<NoLine, NoLine, NoLine, NoLine>>]

\* __init__, lines 100-116: the instance after construction.  raises_on is
\* the behaviour of the text cleaner as a collaborator: the calls of
\* clean_section, counted within one call of detect_sections, that raise;
\* the TextCleaner of line 108 raises on no text.
SectionDetector ==
    [config |-> [min_section_length |-> min_section_length],
     text_cleaner |-> [remove_citations |-> TRUE, raises_on |-> {}],
     compiled_patterns |-> SECTION_PATTERNS]

\* lines 216-225: the patterns of one kind, tried in the order of its list
\* from the i-th on; the loop over them ends at the first that matches, so
\* that one match is appended when any of them matches.  line_lower is the
\* line as the patterns, compiled with re.IGNORECASE, see it
RECURSIVE EveryPattern(_, _, _, _, _, _)
EveryPattern(line_stripped, line_lower, char_position, section_type, patterns, i) ==
    IF i > Len(patterns) THEN <<>>
    ELSE (IF line_lower \in patterns[i]
          THEN <<SectionMatch(section_type, line_stripped, char_position,
                              PatternConfidence, "pattern", 0, FALSE)>>
          ELSE <<>>)
         \o EveryPattern(line_stripped, line_lower, char_position, section_type,
                         patterns, i + 1)

KindMatches(line_stripped, line_lower, char_position, section_type, patterns, i) ==
    IF \E k \in i..Len(patterns) : line_lower \in patterns[k]
    THEN <<SectionMatch(section_type, line_stripped, char_position,
                        PatternConfidence, "pattern", 0, FALSE)>>
    ELSE <<>>

\* lines 215-225: the matches one non-blank line adds, kind by kind in the
\* order of the pattern table self._compiled_patterns
RECURSIVE LineMatches(_, _, _, _)
LineMatches(line_stripped, line_lower, char_position, k) ==
    IF k > Len(all_expected) THEN <<>>
    ELSE KindMatches(line_stripped, line_lower, char_position, all_expected[k],
                     detector.compiled_patterns[all_expected[k]], 1)
         \o LineMatches(line_stripped, line_lower, char_position, k + 1)

\* lines 211, 227: char_position += len(line) + 1
WithoutTerminator(char_position, line) == char_position + TextLen(line)
NextLineStart(char_position, line) == char_position + TextLen(line) + 1

\* lines 206-227: the loop over the lines
RECURSIVE ScanLines(_, _, _)
ScanLines(lines, i, char_position) ==
    IF i > Len(lines) THEN <<>>
    ELSE LET line == lines[i]
             line_stripped == Strip(line)
         IN (IF line_stripped = <<>> THEN <<>>
             ELSE LineMatches(line_stripped, LowerText(line_stripped),
                              char_position, 1))
            \o ScanLines(lines, i + 1, NextLineStart(char_position, line))

pattern_match(text) == ScanLines(SplitLines(text), 1, 0)

(***************************************************************************)
(* _layout_analysis                                                        *)
(***************************************************************************)
TextBlock(text, font_size, is_bold) ==
    [text |-> text, font_size |-> font_size, is_bold |-> is_bold]

\* keyword_map, lines 316-333, in its order
keyword_map ==
    <<[keyword |-> "abstract", section_type |-> "abstract"],
      [keyword |-> "introduction", section_type |-> "introduction"],
      [keyword |-> "methodology", section_type |-> "methodology"],
      [keyword |-> "methods", section_type |-> "methodology"],
      [keyword |-> "results", section_type |-> "results"],
      [keyword |-> "experiments", section_type |-> "results"],
      [keyword |-> "discussion", section_type |-> "discussion"],
      [keyword |-> "analysis", section_type |-> "discussion"],
      [keyword |-> "conclusion", section_type |-> "conclusion"],
      [keyword |-> "conclusions", section_type |-> "conclusion"],
      [keyword |-> "references", section_type |-> "references"],
      [keyword |-> "bibliography", section_type |-> "references"]>>

\* line 336: "keyword in text_lower"; in the vocabulary a keyword occurs in a
\* text exactly as one of its tokens
KeywordIn(keyword, text_lower) ==
    \E i \in DOMAIN text_lower : text_lower[i] = keyword

\* lines 313-339: the kind of the first keyword of the map found, "" for None
match_text_to_section(text) ==
    LET text_lower == Strip(LowerText(text))
        found == {k \in DOMAIN keyword_map : KeywordIn(keyword_map[k].keyword, text_lower)}
    IN IF found = {} THEN ""
       ELSE keyword_map[CHOOSE k \in found : \A j \in found : k <= j].section_type

\* lines 254, 258: the positive font sizes, as their sum and their number
AllFonts(blocks) == DOMAIN blocks
PositiveFonts(blocks) == {i \in DOMAIN blocks : blocks[i].font_size > 0}

RECURSIVE SumFonts(_)
SumFonts(blocks) ==
    IF blocks = <<>> THEN 0
    ELSE (IF Head(blocks).font_size > 0 THEN Head(blocks).font_size ELSE 0)
         + SumFonts(Tail(blocks))

\* lines 258-259, 270: font_size >= (sum / n) * 1.2
StrictlyLarger(font_size, sum, n) == font_size * n * 10 > sum * HeaderFontRatio
IsLargeFont(font_size, sum, n) == font_size * n * 10 >= sum * HeaderFontRatio

\* line 271: "is_large_font or block.is_bold"
AnyLayout(is_large_font, is_bold) == TRUE
LooksLikeHeader(is_large_font, is_bold) == is_large_font \/ is_bold

\* lines 283-287
LayoutConfidence(is_large_font, is_bold) ==
    LayoutBaseConfidence
      + (IF is_large_font THEN LargeFontBonus ELSE 0)
      + (IF is_bold THEN BoldBonus ELSE 0)

\* lines 262-297: what one block adds
BlockMatches(text, block, sum, n) ==
    LET block_text == Strip(block.text)
        is_large_font == IsLargeFont(block.font_size, sum, n)
        section_type == match_text_to_section(block_text)
        position == FindFrom(LowerText(text), LowerText(block_text), 0)
    IN IF TextLen(block_text) > MaxHeaderLength THEN <<>>
       ELSE IF ~LooksLikeHeader(is_large_font, block.is_bold) THEN <<>>
       ELSE IF section_type = "" THEN <<>>
       ELSE IF position = -1 THEN <<>>
       ELSE <<SectionMatch(section_type, block_text, position,
                           LayoutConfidence(is_large_font, block.is_bold),
                           "layout", block.font_size, block.is_bold)>>

RECURSIVE ScanBlocks(_, _, _, _, _)
ScanBlocks(text, blocks, i, sum, n) ==
    IF i > Len(blocks) THEN <<>>
    ELSE BlockMatches(text, blocks[i], sum, n)
         \o ScanBlocks(text, blocks, i + 1, sum, n)

\* text_blocks = None, a value that is no list of blocks
NoneBlocks == <<[none |-> TRUE]>>

\* lines 183, 250: "text_blocks" is false of None and of the empty list
NotBlocks(blocks) == blocks = NoneBlocks \/ blocks = <<>>

layout_analysis(text, blocks) ==
    IF NotBlocks(blocks) THEN <<>>
    ELSE IF PositiveFonts(blocks) = {} THEN <<>>
    ELSE ScanBlocks(text, blocks, 1, SumFonts(blocks), Cardinality(PositiveFonts(blocks)))

(***************************************************************************)
(* TextCleaner.clean_section (parsers/text_cleaner.py) on token texts:     *)
(* runs of spaces become one space, every line is stripped, and the lines  *)
(* left empty are dropped (normalize_whitespace, the final strip() and the *)
(* "len(line) < 3 and not line.isalpha()" filter); the vocabulary holds    *)
(* nothing the other steps change.                                         *)
(***************************************************************************)
RECURSIVE CollapseSpaces(_)
CollapseSpaces(toks) ==
    IF Len(toks) < 2 THEN toks
    ELSE IF toks[1] = SP /\ toks[2] = SP THEN CollapseSpaces(Tail(toks))
    ELSE <<toks[1]>> \o CollapseSpaces(Tail(toks))

RECURSIVE CleanLines(_)
CleanLines(lines) ==
    IF lines = <<>> THEN <<>>
    ELSE LET line == Strip(CollapseSpaces(Head(lines)))
         IN (IF line = <<>> THEN <<>> ELSE <<line>>) \o CleanLines(Tail(lines))

clean_section(text) ==
    IF text = <<>> THEN <<>>
    ELSE JoinLines(CleanLines(SplitLines(text)))

(***************************************************************************)
(* _extract_section_content                                                *)
(***************************************************************************)
\* sorted(matches, key=position): stable
RECURSIVE InsertByPosition(_, _)
InsertByPosition(sorted, m) ==
    IF sorted = <<>> THEN <<m>>
    ELSE IF m.position < Head(sorted).position THEN <<m>> \o sorted
    ELSE <<Head(sorted)>> \o InsertByPosition(Tail(sorted), m)

RECURSIVE SortByPosition(_)
SortByPosition(ms) ==
    IF ms = <<>> THEN <<>>
    ELSE InsertByPosition(SortByPosition(SubSeq(ms, 1, Len(ms) - 1)), ms[Len(ms)])

\* lines 447-452
ContentStart(text, match) ==
    LET header_end == FindFrom(text, <<NL>>, match.position)
    IN (IF header_end = -1
        THEN match.position + TextLen(match.header_text)
        ELSE header_end) + 1

\* lines 455-458
EndAtTextEnd(text, sorted_matches, i) == TextLen(text)
EndAtNextKept(text, sorted_matches, i) ==
    LET next(k) == IF k + 1 <= Len(sorted_matches)
                   THEN sorted_matches[k + 1].position
                   ELSE TextLen(text)
        kept == {k \in (i + 1)..Len(sorted_matches) :
                    TextLen(clean_section(Slice(text,
                        ContentStart(text, sorted_matches[k]), next(k))))
                      >= detector.config.min_section_length}
    IN IF kept = {} THEN TextLen(text)
       ELSE sorted_matches[CHOOSE k \in kept : \A m \in kept : k <= m].position
EndPos(text, sorted_matches, i) ==
    IF i + 1 <= Len(sorted_matches)
    THEN sorted_matches[i + 1].position
    ELSE TextLen(text)

\* line 465: "len(content) < self.config.min_section_length"
NeverTooShort(content) == FALSE
OneShorter(content) == TextLen(content) < detector.config.min_section_length - 1
TooShort(content) == TextLen(content) < detector.config.min_section_length

\* lines 445-474
RECURSIVE ExtractFrom(_, _, _)
ExtractFrom(text, sorted_matches, i) ==
    IF i > Len(sorted_matches) THEN <<>>
    ELSE LET match == sorted_matches[i]
             content_start == ContentStart(text, match)
             end_pos == EndPos(text, sorted_matches, i)
             content == clean_section(Slice(text, content_start, end_pos))
         IN (IF TooShort(content) THEN <<>>
             ELSE <<Section(match.section_type, TextLen(content),
                            match.confidence, content_start, end_pos)>>)
            \o ExtractFrom(text, sorted_matches, i + 1)

extract_section_content(text, ms) == ExtractFrom(text, SortByPosition(ms), 1)

(***************************************************************************)
(* detect_sections, with the locals of _find_section_headers               *)
(***************************************************************************)
KeepAllMatches(ms) == ms
Deduplicated(ms) == deduplicate_matches(ms)

\* None, a value that is no text
None == <<"None">>

\* line 133: "not full_text" holds of None and of the empty string
OnlyNone(text) == text = None
NotText(text) == text = None \/ text = <<>>

\* lines 118-191: no statement of detect_sections or of the methods it calls
\* assigns to an attribute of self, of self.config or of self.text_cleaner
ClearsPatterns(self) ==
    [self EXCEPT !.compiled_patterns = [t \in DOMAIN SECTION_PATTERNS |-> <<>>]]
ForgetsMinimum(self) == [self EXCEPT !.config.min_section_length = 0]
DetectorAfterCall(self) == self

\* line 462: clean_section is called once per candidate, in position order
CleanerRaises(sorted_matches) ==
    \E i \in DOMAIN sorted_matches : i \in detector.text_cleaner.raises_on

\* the methods invoked, in order: lines 179, 183-184, 186, 189, 147
Invoked(blocks, deduplicated) ==
    <<"_pattern_match">>
      \o (IF ~NotBlocks(blocks) THEN <<"_layout_analysis">> ELSE <<>>)
      \o <<"_combine_matches", "_deduplicate_matches">>
      \o (IF deduplicated # <<>> THEN <<"_extract_section_content">> ELSE <<>>)

\* an exception of clean_section is caught nowhere: it leaves
\* _extract_section_content and detect_sections, which returns nothing
DetectSections ==
    /\ pc = "call"
    /\ IF NotText(full_text)
       THEN /\ pc' = "returned"
            /\ sections' = <<>>
            /\ UNCHANGED <<pattern_matches, layout_matches, pairing, combined,
                           matches, calls>>
       ELSE \E pms \in {pattern_match(full_text)} :
            \E lms \in {IF ~NotBlocks(text_blocks)
                         THEN layout_analysis(full_text, text_blocks)
                         ELSE <<>>} :
            \E cmb \in {combine_matches(pms, lms)} :
            \E ded \in {SortByPosition(Deduplicated(cmb))} :
               /\ pattern_matches' = pms
               /\ layout_matches' = lms
               /\ pairing' = BestLayouts(pms, lms)
               /\ combined' = cmb
               /\ matches' = ded
               /\ calls' = Invoked(text_blocks, ded)
               /\ IF CleanerRaises(ded)
                  THEN /\ pc' = "raised"
                       /\ UNCHANGED sections
                  ELSE /\ pc' = "returned"
                       /\ sections' = IF ded = <<>> THEN <<>>
                                      ELSE extract_section_content(full_text, ded)
    /\ detector' = DetectorAfterCall(detector)
    /\ UNCHANGED <<full_text, text_blocks, quality, served, thread>>

(***************************************************************************)
(* Whole runs: every text of at most MaxLines lines and every list of at   *)
(* most MaxBlocks text blocks drawn from the shapes below                  *)
(***************************************************************************)
\* a header line of each of two kinds, a long and a short line of prose, and
\* a line holding a header word between prose
LineShapes ==
    {<<"Results">>, <<"Discussion">>, <<LongProse>>, <<ShortProse>>,
     <<ShortProse, SP, "Results", SP, BodyProse>>}

\* a bold header in a large font, a header in a large font, body text
BlockShapes ==
    {TextBlock(<<"RESULTS">>, 16, TRUE),
     TextBlock(<<"Discussion">>, 16, FALSE),
     TextBlock(<<ShortProse>>, 10, FALSE)}

\* no list, and a list whose only block, a bold header, carries no font size
UnsizedBlocks == {NoneBlocks, <<TextBlock(<<"RESULTS">>, 0, TRUE)>>}

InitDetect ==
    /\ pc = "call"
    /\ detector = SectionDetector
    /\ calls = <<>>
    /\ served = <<>>
    /\ thread = <<>>
    /\ \/ \E lines \in BoundedSeq(LineShapes, MaxLines) : full_text = JoinLines(lines)
       \/ full_text = None
    /\ text_blocks \in BoundedSeq(BlockShapes, MaxBlocks) \cup UnsizedBlocks
    /\ pattern_matches = <<>>
    /\ layout_matches = <<>>
    /\ pairing = <<>>
    /\ combined = <<>>
    /\ matches = <<>>
    /\ sections = <<>>
    /\ quality = <<>>

NextDetect == DetectSections \/ CalculateDetectionQuality

Spec == InitDetect /\ [][NextDetect]_vars

(***************************************************************************)
(* Whole runs on a detector whose text cleaner raises on its first or on   *)
(* its second call of clean_section                                        *)
(***************************************************************************)
FaultyCalls == {{1}, {2}}

InitCleanerFault ==
    /\ pc = "call"
    /\ \E raises_on \in FaultyCalls :
          detector = [SectionDetector EXCEPT !.text_cleaner.raises_on = raises_on]
    /\ calls = <<>>
    /\ served = <<>>
    /\ thread = <<>>
    /\ \E lines \in BoundedSeq(LineShapes, MaxLines) : full_text = JoinLines(lines)
    /\ text_blocks \in BoundedSeq(BlockShapes, 1)
    /\ pattern_matches = <<>>
    /\ layout_matches = <<>>
    /\ pairing = <<>>
    /\ combined = <<>>
    /\ matches = <<>>
    /\ sections = <<>>
    /\ quality = <<>>

SpecCleanerFault == InitCleanerFault /\ [][NextDetect]_vars

(***************************************************************************)
(* The reconciler and the deduplicator on their own: every pattern-match   *)
(* list and layout-match list within the bounds                            *)
(***************************************************************************)
ReconcileKinds == {"results", "discussion"}
PatternPositions == {0, 500}
LayoutPositions == {0, 499, 500}
LayoutConfidences == {70, 85}
ConfidenceGrid == {5 * n : n \in 0..20}

PatternInputs ==
    {SectionMatch(t, "Header", p, PatternConfidence, "pattern", 0, FALSE) :
        t \in ReconcileKinds, p \in PatternPositions}

LayoutInputs ==
    {SectionMatch(t, "HEADER", p, c, "layout", 14, TRUE) :
        t \in ReconcileKinds, p \in LayoutPositions, c \in LayoutConfidences}

Idle ==
    /\ detector = SectionDetector
    /\ calls = <<>>
    /\ served = <<>>
    /\ thread = <<>>
    /\ full_text = <<>>
    /\ text_blocks = <<>>
    /\ pairing = <<>>
    /\ combined = <<>>
    /\ matches = <<>>
    /\ sections = <<>>
    /\ quality = <<>>

InitLists ==
    /\ pattern_matches \in BoundedSeq(PatternInputs, MaxPattern)
    /\ layout_matches \in BoundedSeq(LayoutInputs, MaxLayout)

\* one pattern match and one layout match of one kind, less than 500 apart,
\* with any confidences
InitPair ==
    \E p \in ConfidenceGrid, l \in ConfidenceGrid, d \in {0, 499} :
        /\ pattern_matches = <<SectionMatch("results", "Header", 0, p, "pattern", 0, FALSE)>>
        /\ layout_matches = <<SectionMatch("results", "HEADER", d, l, "layout", 14, TRUE)>>

InitReconcile ==
    /\ pc = "reconcile"
    /\ Idle
    /\ (InitLists \/ InitPair)

CombineMatches ==
    /\ pc = "reconcile"
    /\ pairing' = BestLayouts(pattern_matches, layout_matches)
    /\ combined' = combine_matches(pattern_matches, layout_matches)
    /\ pc' = "combined"
    /\ UNCHANGED <<full_text, text_blocks, pattern_matches, layout_matches,
                   matches, sections, quality, detector, calls, served, thread>>

DeduplicateMatches ==
    /\ pc = "combined"
    /\ matches' = deduplicate_matches(combined)
    /\ pc' = "deduplicated"
    /\ UNCHANGED <<full_text, text_blocks, pattern_matches, layout_matches,
                   pairing, combined, sections, quality,
                   detector, calls, served, thread>>

NextReconcile == CombineMatches \/ DeduplicateMatches

SpecReconcile == InitReconcile /\ [][NextReconcile]_vars

(***************************************************************************)
(* A session: up to MaxCalls calls of detect_sections, each followed by    *)
(* calculate_detection_quality, one after the other on one instance        *)
(***************************************************************************)
\* a header with long content, a header with content that is too short, the
\* empty string
SessionTexts ==
    {JoinLines(<<<<"Results">>, <<LongProse>>>>),
     JoinLines(<<<<"Results">>, <<ShortProse>>>>),
     <<>>}

SessionBlocks == {<<>>, <<TextBlock(<<"RESULTS">>, 16, TRUE)>>}

InitSession ==
    /\ pc = "idle"
    /\ Idle
    /\ pattern_matches = <<>>
    /\ layout_matches = <<>>

\* the caller passes a document: the locals of the call are fresh
Invoke ==
    /\ pc = "idle"
    /\ Len(served) < MaxCalls
    /\ full_text' \in SessionTexts
    /\ text_blocks' \in SessionBlocks
    /\ pattern_matches' = <<>>
    /\ layout_matches' = <<>>
    /\ pairing' = <<>>
    /\ combined' = <<>>
    /\ matches' = <<>>
    /\ sections' = <<>>
    /\ quality' = <<>>
    /\ calls' = <<>>
    /\ pc' = "call"
    /\ UNCHANGED <<detector, served, thread>>

\* the caller holds the section list and the (score, level) of the call
Complete ==
    /\ pc = "scored"
    /\ served' = Append(served, [full_text |-> full_text,
                                 text_blocks |-> text_blocks,
                                 sections |-> sections,
                                 score_num |-> quality.score_num,
                                 score_den |-> quality.score_den,
                                 level |-> quality.level])
    /\ pc' = "idle"
    /\ UNCHANGED <<full_text, text_blocks, pattern_matches, layout_matches,
                   pairing, combined, matches, sections, quality,
                   detector, calls, thread>>

NextSession ==
    Invoke \/ DetectSections \/ CalculateDetectionQuality \/ Complete

SpecSession == InitSession /\ [][NextSession]_vars

(***************************************************************************)
(* Concurrent calls: MaxThreads threads call detect_sections on one        *)
(* instance, each with a document of its own; a step is one method call of *)
(* detect_sections or _find_section_headers, and the steps of the threads  *)
(* interleave in every order.  Each thread has its own locals; the         *)
(* instance is what the threads share.                                     *)
(***************************************************************************)
Threads == 1..MaxThreads

Locals(text, blocks) ==
    [pc |-> "call", full_text |-> text, text_blocks |-> blocks,
     pattern_matches |-> <<>>, layout_matches |-> <<>>, combined |-> <<>>,
     matches |-> <<>>, sections |-> <<>>]

InitConcurrent ==
    /\ pc = "concurrent"
    /\ detector = SectionDetector
    /\ calls = <<>>
    /\ served = <<>>
    /\ full_text = <<>>
    /\ text_blocks = <<>>
    /\ pattern_matches = <<>>
    /\ layout_matches = <<>>
    /\ pairing = <<>>
    /\ combined = <<>>
    /\ matches = <<>>
    /\ sections = <<>>
    /\ quality = <<>>
    /\ thread \in [Threads -> {Locals(text, blocks) :
                                  text \in SessionTexts, blocks \in SessionBlocks}]

\* a step of thread t that leaves its locals as the record next
Step(t, next) ==
    /\ thread' = [thread EXCEPT ![t] = next]
    /\ detector' = DetectorAfterCall(detector)
    /\ UNCHANGED <<pc, full_text, text_blocks, pattern_matches, layout_matches,
                   pairing, combined, matches, sections, quality, calls, served>>

\* lines 133-134
ThreadEnter(t) ==
    /\ thread[t].pc = "call"
    /\ Step(t, [thread[t] EXCEPT
                  !.pc = IF NotText(thread[t].full_text)
                         THEN "returned" ELSE "_pattern_match"])

\* line 179
ThreadPatternMatch(t) ==
    /\ thread[t].pc = "_pattern_match"
    /\ Step(t, [thread[t] EXCEPT
                  !.pattern_matches = pattern_match(thread[t].full_text),
                  !.pc = IF NotBlocks(thread[t].text_blocks)
                         THEN "_combine_matches" ELSE "_layout_analysis"])

\* lines 183-184
ThreadLayoutAnalysis(t) ==
    /\ thread[t].pc = "_layout_analysis"
    /\ Step(t, [thread[t] EXCEPT
                  !.layout_matches = layout_analysis(thread[t].full_text,
                                                     thread[t].text_blocks),
                  !.pc = "_combine_matches"])

\* line 186
ThreadCombineMatches(t) ==
    /\ thread[t].pc = "_combine_matches"
    /\ Step(t, [thread[t] EXCEPT
                  !.combined = combine_matches(thread[t].pattern_matches,
                                               thread[t].layout_matches),
                  !.pc = "_deduplicate_matches"])

\* lines 189, 139-144
ThreadDeduplicateMatches(t) ==
    /\ thread[t].pc = "_deduplicate_matches"
    /\ \E ded \in {SortByPosition(Deduplicated(thread[t].combined))} :
          Step(t, [thread[t] EXCEPT
                     !.matches = ded,
                     !.pc = IF ded = <<>> THEN "returned"
                            ELSE "_extract_section_content"])

\* lines 147-156
ThreadExtractSectionContent(t) ==
    /\ thread[t].pc = "_extract_section_content"
    /\ Step(t, IF CleanerRaises(thread[t].matches)
               THEN [thread[t] EXCEPT !.pc = "raised"]
               ELSE [thread[t] EXCEPT
                       !.sections = extract_section_content(thread[t].full_text,
                                                            thread[t].matches),
                       !.pc = "returned"])

NextConcurrent ==
    \E t \in Threads :
        \/ ThreadEnter(t)
        \/ ThreadPatternMatch(t)
        \/ ThreadLayoutAnalysis(t)
        \/ ThreadCombineMatches(t)
        \/ ThreadDeduplicateMatches(t)
        \/ ThreadExtractSectionContent(t)

SpecConcurrent == InitConcurrent /\ [][NextConcurrent]_vars

(***************************************************************************)
(* The pattern matcher on its own: every text of at most MaxLines lines    *)
(* drawn from the shapes below                                             *)
(***************************************************************************)
\* an empty line, a line of white space, header lines of four kinds (plain,
\* indented, in capitals, followed by a space), a line of prose and a line
\* holding the header words of two kinds
PatternLineShapes ==
    {<<>>, <<SP>>, <<"Summary">>, <<SP, "Methods">>, <<"RESULTS">>,
     <<"Discussion", SP>>, <<ShortProse>>, <<"Results", SP, "Discussion">>}

InitPattern ==
    /\ pc = "pattern"
    /\ detector = SectionDetector
    /\ calls = <<>>
    /\ served = <<>>
    /\ thread = <<>>
    /\ \E lines \in BoundedSeq(PatternLineShapes, MaxLines) :
          full_text = JoinLines(lines)
    /\ text_blocks = <<>>
    /\ pattern_matches = <<>>
    /\ layout_matches = <<>>
    /\ pairing = <<>>
    /\ combined = <<>>
    /\ matches = <<>>
    /\ sections = <<>>
    /\ quality = <<>>

PatternMatch ==
    /\ pc = "pattern"
    /\ pattern_matches' = pattern_match(full_text)
    /\ pc' = "matched"
    /\ UNCHANGED <<full_text, text_blocks, layout_matches, pairing, combined,
                   matches, sections, quality, detector, calls, served, thread>>

NextPattern == PatternMatch

SpecPattern == InitPattern /\ [][NextPattern]_vars

(***************************************************************************)
(* The layout matcher on its own: the texts below with every list of at    *)
(* most MaxBlocks text blocks drawn from the shapes below                  *)
(***************************************************************************)
\* a header followed by prose on its line; a header word within a line of
\* prose long before the header line; a name whose lower-case form is longer
\* before the header; headers of two kinds
LayoutTexts ==
    {<<"Results", SP, LongProse, NL, LongProse>>,
     <<ShortProse, SP, "Results", SP, BodyProse, NL, LongProse, NL,
       "Results", NL, LongProse>>,
     <<Istanbul, SP, ShortProse, NL, "Results", NL, LongProse>>,
     <<"Discussion", NL, LongProse, NL, "Results", NL, LongProse>>}

\* headers in two font sizes, bold or not; body text; a bold fragment of more
\* than 100 characters that starts with a header word; a bold header with
\* white space around it and no font size; a bold fragment without a keyword
LayoutBlockShapes ==
    {TextBlock(<<"Results">>, 12, TRUE),
     TextBlock(<<"RESULTS">>, 12, FALSE),
     TextBlock(<<"Discussion">>, 8, TRUE),
     TextBlock(<<ShortProse>>, 8, FALSE),
     TextBlock(<<"Results", SP, LongProse>>, 12, TRUE),
     TextBlock(<<SP, "Results", SP>>, 0, TRUE),
     TextBlock(<<ShortProse>>, 12, TRUE)}

InitLayout ==
    /\ pc = "layout"
    /\ detector = SectionDetector
    /\ calls = <<>>
    /\ served = <<>>
    /\ thread = <<>>
    /\ full_text \in LayoutTexts
    /\ text_blocks \in BoundedSeq(LayoutBlockShapes, MaxBlocks)
    /\ pattern_matches = <<>>
    /\ layout_matches = <<>>
    /\ pairing = <<>>
    /\ combined = <<>>
    /\ matches = <<>>
    /\ sections = <<>>
    /\ quality = <<>>

LayoutAnalysis ==
    /\ pc = "layout"
    /\ layout_matches' = layout_analysis(full_text, text_blocks)
    /\ pc' = "analysed"
    /\ UNCHANGED <<full_text, text_blocks, pattern_matches, pairing, combined,
                   matches, sections, quality, detector, calls, served, thread>>

NextLayout == LayoutAnalysis

SpecLayout == InitLayout /\ [][NextLayout]_vars

(***************************************************************************)
(* The quality scorer on its own: every section list within the bounds     *)
(***************************************************************************)
QualityKinds == {"abstract", "results", "unknown"}
QualityConfidences == {65, 70, 95}

SectionInputs ==
    {Section(t, 60, c, 0, 0) : t \in QualityKinds, c \in QualityConfidences}

\* one section repeated up to MaxRepeat times, with any confidence in [0, 1]
RepeatedLists ==
    {[i \in 1..n |-> Section(t, 60, c, 0, 0)] :
        n \in 1..MaxRepeat, t \in QualityKinds, c \in ConfidenceGrid}

\* sections of four of the seven kinds with confidences 0.7, 0.8, 0.6, 0.9
FourOfSeven ==
    <<Section("abstract", 60, 70, 0, 0), Section("introduction", 60, 80, 0, 0),
      Section("methodology", 60, 60, 0, 0), Section("results", 60, 90, 0, 0)>>

InitQuality ==
    /\ pc = "returned"
    /\ detector = SectionDetector
    /\ calls = <<>>
    /\ served = <<>>
    /\ thread = <<>>
    /\ full_text = <<>>
    /\ text_blocks = <<>>
    /\ pattern_matches = <<>>
    /\ layout_matches = <<>>
    /\ pairing = <<>>
    /\ combined = <<>>
    /\ matches = <<>>
    /\ quality = <<>>
    /\ sections \in BoundedSeq(SectionInputs, MaxSections)
                      \cup RepeatedLists \cup {FourOfSeven}

NextQuality == CalculateDetectionQuality

SpecQuality == InitQuality /\ [][NextQuality]_vars

(***************************************************************************)
(* The quality scorer on the lists detect_sections can return              *)
(***************************************************************************)
\* the confidences detect_sections gives a section: that of a pattern
\* candidate, of a layout candidate (large font, bold or both) and of a
\* combined candidate
PipelineConfidences ==
    LET layout == {LayoutConfidence(l, b) : l, b \in BOOLEAN} \ {LayoutBaseConfidence}
    IN {PatternConfidence} \cup layout
         \cup {CombinedConfidence(PatternConfidence, c) : c \in layout}

\* the section lists detect_sections can return, with the kinds in the order
\* of the table: from the k-th kind on, each kind absent or present once
\* with one of these confidences
RECURSIVE ReturnableFrom(_)
ReturnableFrom(k) ==
    IF k > Len(all_expected) THEN {<<>>}
    ELSE LET rest == ReturnableFrom(k + 1)
         IN rest \cup
            {<<Section(all_expected[k], min_section_length, c, 0, 0)>> \o r :
                c \in PipelineConfidences, r \in rest}

InitReturnable ==
    /\ pc = "returned"
    /\ detector = SectionDetector
    /\ calls = <<>>
    /\ served = <<>>
    /\ thread = <<>>
    /\ full_text = <<>>
    /\ text_blocks = <<>>
    /\ pattern_matches = <<>>
    /\ layout_matches = <<>>
    /\ pairing = <<>>
    /\ combined = <<>>
    /\ matches = <<>>
    /\ quality = <<>>
    /\ sections \in ReturnableFrom(1)

SpecReturnable == InitReturnable /\ [][NextQuality]_vars

(***************************************************************************)
(* Claims about the reconciler and the deduplicator (SpecReconcile)        *)
(***************************************************************************)
Distance(pm, lm) == Abs(pm.position - lm.position)

SameKindLayouts(pm) ==
    {i \in DOMAIN layout_matches : layout_matches[i].section_type = pm.section_type}

\* the j-th smallest element of a finite set of numbers
Nth(S, j) == CHOOSE i \in S : Cardinality({x \in S : x < i}) = j - 1

\* C1: in _combine_matches no layout match is paired with more than one
\* pattern match: once a layout index has been paired it is not paired again
\* with a later pattern match.
C1_LayoutPairedAtMostOnce ==
    \A i, j \in DOMAIN pairing :
        (i < j /\ pairing[i] # 0) => pairing[j] # pairing[i]

\* C2: a pattern match is paired iff some layout match of its kind lies at a
\* distance strictly below 500; the layout match chosen is of the same kind,
\* below 500 away, and no same-kind layout match is closer.
C2_PairedIffClosestInWindow ==
    \A k \in DOMAIN pairing :
        LET pm == pattern_matches[k]
            same == SameKindLayouts(pm)
            d(i) == Distance(pm, layout_matches[i])
        IN /\ (pairing[k] # 0) <=> (\E i \in same : d(i) < 500)
           /\ pairing[k] # 0 =>
                /\ pairing[k] \in same
                /\ d(pairing[k]) < 500
                /\ \A i \in same : d(pairing[k]) <= d(i)

\* C2 witness: one pattern match paired with a same-kind layout match 499
\* characters away, another left unpaired although a layout match of its
\* kind lies exactly 500 characters away.
C2_Witness ==
    /\ pc = "combined"
    /\ \E k \in DOMAIN pairing :
        /\ pairing[k] # 0
        /\ Distance(pattern_matches[k], layout_matches[pairing[k]]) = 499
    /\ \E k \in DOMAIN pairing :
        /\ pairing[k] = 0
        /\ \E i \in SameKindLayouts(pattern_matches[k]) :
              Distance(pattern_matches[k], layout_matches[i]) = 500

\* C3: for a pairing of pattern match p with layout match l the reconciler
\* emits exactly one candidate: provenance "combined", confidence
\* min(0.95, p + l - 0.20), kind, header text and offset of p, font size and
\* bold flag of l.
C3_CombinedCandidate ==
    pc # "reconcile" =>
        /\ \A k \in DOMAIN pairing :
              pairing[k] # 0 =>
                 LET pm == pattern_matches[k]
                     lm == layout_matches[pairing[k]]
                     sum == pm.confidence + lm.confidence - 20
                 IN combined[k] =
                      [section_type |-> pm.section_type,
                       header_text |-> pm.header_text,
                       position |-> pm.position,
                       confidence |-> IF sum > 95 THEN 95 ELSE sum,
                       method |-> "combined",
                       font_size |-> lm.font_size,
                       is_bold |-> lm.is_bold]
        /\ Cardinality({k \in DOMAIN combined : combined[k].method = "combined"})
             = Cardinality({k \in DOMAIN pairing : pairing[k] # 0})

\* C3 witness: pattern 0.70 paired with layout 0.85 gives a combined 0.95
C3_Witness ==
    /\ pc = "combined"
    /\ \E k \in DOMAIN pairing :
        /\ pairing[k] # 0
        /\ pattern_matches[k].confidence = 70
        /\ layout_matches[pairing[k]].confidence = 85
        /\ combined[k].confidence = 95
        /\ combined[k].method = "combined"
        /\ combined[k].font_size = 14

\* C4: the output is one entry per pattern match in pattern order (the
\* pattern match itself when it has no pairing), followed by the layout
\* matches never consumed by a pairing, unchanged and in layout order; a
\* consumed layout match does not appear on its own.
C4_OutputShape ==
    pc # "reconcile" =>
        LET n == Len(pattern_matches)
            consumed == {pairing[k] : k \in DOMAIN pairing} \ {0}
            free == DOMAIN layout_matches \ consumed
        IN /\ Len(combined) = n + Cardinality(free)
           /\ \A k \in 1..n :
                /\ pairing[k] = 0 => combined[k] = pattern_matches[k]
                /\ pairing[k] # 0 =>
                     /\ combined[k].method = "combined"
                     /\ combined[k].position = pattern_matches[k].position
                     /\ combined[k].section_type = pattern_matches[k].section_type
           /\ \A j \in 1..Cardinality(free) :
                combined[n + j] = layout_matches[Nth(free, j)]

\* C4 witness: an unpaired pattern match, a paired one, a consumed layout
\* match and an unconsumed one in the same call
C4_Witness ==
    /\ pc = "combined"
    /\ Len(pattern_matches) = 2
    /\ Len(layout_matches) = 2
    /\ \E k \in DOMAIN pairing : pairing[k] = 0
    /\ \E k \in DOMAIN pairing : pairing[k] = 1
    /\ Len(combined) = 3
    /\ combined[3] = layout_matches[2]

\* C5: the deduplicator returns exactly one candidate for each kind that
\* occurs in its input and none for any other; it is the first in input
\* order among the candidates of that kind with the maximum confidence.
C5_BestPerKind ==
    pc = "deduplicated" =>
        /\ \A i, j \in DOMAIN matches :
              i # j => matches[i].section_type # matches[j].section_type
        /\ {matches[i].section_type : i \in DOMAIN matches}
             = {combined[k].section_type : k \in DOMAIN combined}
        /\ \A i \in DOMAIN matches :
              LET t == matches[i].section_type
                  ofKind == {k \in DOMAIN combined : combined[k].section_type = t}
                  top == {k \in ofKind :
                            \A m \in ofKind :
                                combined[m].confidence <= combined[k].confidence}
              IN matches[i] = combined[Nth(top, 1)]

\* C5 witness: two different candidates of one kind share the maximum
\* confidence and the first of them is returned, after the candidate of
\* another kind that came first in the input
C5_Witness ==
    /\ pc = "deduplicated"
    /\ Len(combined) = 3
    /\ combined[1].section_type # combined[2].section_type
    /\ combined[2].section_type = combined[3].section_type
    /\ combined[2].confidence = combined[3].confidence
    /\ combined[2] # combined[3]
    /\ matches = <<combined[1], combined[2]>>

\* one pattern match and one layout match of the same kind less than 500
\* characters apart
OnePair ==
    /\ pc # "reconcile"
    /\ Len(pattern_matches) = 1
    /\ Len(layout_matches) = 1
    /\ pattern_matches[1].section_type = layout_matches[1].section_type
    /\ Distance(pattern_matches[1], layout_matches[1]) < 500

\* C9 (as stated): for one pattern match of confidence p and one layout match
\* of confidence l, same kind, within 500 characters, the emitted confidence
\* is min(0.95, p + l - 0.2) and is at least max(p, l) whenever p + l >= 1.2.
C9_BoostAsStated ==
    OnePair =>
        LET p == pattern_matches[1].confidence
            l == layout_matches[1].confidence
        IN /\ Len(combined) = 1
           /\ combined[1].confidence = (IF p + l - 20 > 95 THEN 95 ELSE p + l - 20)
           /\ p + l >= 120 => combined[1].confidence >= (IF p > l THEN p ELSE l)

\* C9 (amended): the emitted confidence is min(0.95, p + l - 0.2) and is at
\* least max(p, l) whenever p + l >= 1.2 and neither p nor l exceeds 0.95.
C9_BoostBelowCap ==
    OnePair =>
        LET p == pattern_matches[1].confidence
            l == layout_matches[1].confidence
        IN /\ Len(combined) = 1
           /\ combined[1].confidence = (IF p + l - 20 > 95 THEN 95 ELSE p + l - 20)
           /\ (p + l >= 120 /\ p <= 95 /\ l <= 95) =>
                 combined[1].confidence >= (IF p > l THEN p ELSE l)

\* C9 witness: p = 0.95 and l = 0.25 (p + l = 1.2) give 0.95 = max(p, l)
C9_Witness ==
    /\ OnePair
    /\ pattern_matches[1].confidence = 95
    /\ layout_matches[1].confidence = 25
    /\ combined[1].confidence = 95

(***************************************************************************)
(* Claims about the quality scorer (SpecQuality)                           *)
(***************************************************************************)
\* C10: for a non-empty section list the completeness term is the number of
\* distinct section kinds in the list divided by 7, so that a repeated kind
\* adds nothing to it, and score = 0.6 * completeness + 0.4 * mean confidence.
C10_CompletenessCountsKinds ==
    (pc = "scored" /\ sections # <<>>) =>
        LET kinds == {sections[i].section_type : i \in DOMAIN sections}
            k == Cardinality(kinds)
            n == Len(sections)
            sum == SumConfidence(sections)
        IN /\ quality.total_possible = 7
           /\ quality.sections_found * 7 = k * quality.total_possible
           /\ quality.score_num * (7000 * n)
                = (600 * k * n + 28 * sum) * quality.score_den

\* C11: for every section list whose confidences lie in [0, 1], of any
\* length and with any kinds, repeated kinds included, the score returned by
\* calculate_detection_quality lies in [0, 1].
C11_ScoreInUnitInterval ==
    (pc = "scored" /\ \A i \in DOMAIN sections :
                         sections[i].confidence \in 0..100) =>
        /\ 0 <= quality.score_num
        /\ quality.score_num <= quality.score_den

InsertAt(s, p, x) == SubSeq(s, 1, p) \o <<x>> \o SubSeq(s, p + 1, Len(s))

\* the score of a is at least the score of b; a factor 1000 common to the
\* denominators is divided out to keep the products small
AtLeast(a, b) ==
    LET g == IF a.score_den % 1000 = 0 /\ b.score_den % 1000 = 0
             THEN 1000 ELSE 1
    IN a.score_num * (b.score_den \div g) >= b.score_num * (a.score_den \div g)

\* C19: adding one more sufficiently long section, of an expected kind that
\* is not yet in the list and with a confidence the detection pipeline can
\* produce, to a section list never decreases the score returned by
\* calculate_detection_quality.
C19_OneMoreSectionNeverLowers ==
    pc = "scored" =>
        \A k \in DOMAIN all_expected, c \in PipelineConfidences,
           p \in 0..Len(sections) :
            (\A i \in DOMAIN sections :
                sections[i].section_type # all_expected[k]) =>
                LET one_more == calculate_detection_quality(
                        InsertAt(sections, p,
                                 Section(all_expected[k], min_section_length, c, 0, 0)))
                IN AtLeast(one_more, quality)

\* C19 witness: one section with confidence 0.95 was scored; a second
\* section with confidence 0.65 lowers the mean confidence and raises the
\* score
C19_Witness ==
    /\ pc = "scored"
    /\ sections = <<Section("abstract", 60, 95, 0, 0)>>
    /\ 65 \in PipelineConfidences
    /\ LET one_more == calculate_detection_quality(
                <<sections[1], Section("results", min_section_length, 65, 0, 0)>>)
       IN AtLeast(one_more, quality) /\ ~AtLeast(quality, one_more)

(***************************************************************************)
(* Claims about whole runs of detect_sections (Spec)                       *)
(***************************************************************************)
\* C6: the section list returned by detect_sections holds no two sections
\* of the same kind.
C6_OneSectionPerKind ==
    pc # "call" =>
        \A i, j \in DOMAIN sections :
            i # j => sections[i].section_type # sections[j].section_type

\* C6 witness: two candidates of one kind were found, and a section of that
\* kind and a section of another kind are returned
C6_Witness ==
    /\ pc = "returned"
    /\ Len(sections) = 2
    /\ \E i, j \in DOMAIN combined :
          /\ i # j
          /\ combined[i].section_type = combined[j].section_type
          /\ combined[i].section_type = sections[1].section_type

\* the offsets at which the lines of a text start
LineStarts(toks) ==
    {0} \cup {Offsets(toks, 0)[i + 1] : i \in {k \in DOMAIN toks : toks[k] = NL}}

\* C7: in the returned list every section ends at or before the start of the
\* next (end_position <= start_position of the next) and every section has
\* start_position < end_position.
C7_MonotonicSpans ==
    pc # "call" =>
        /\ \A i \in 1..(Len(sections) - 1) :
              sections[i].end_position <= sections[i + 1].start_position
        /\ \A i \in DOMAIN sections :
              sections[i].start_position < sections[i].end_position

\* C7 witness: two sections are returned and the second comes from a layout
\* candidate that sits in the middle of the last line, with no newline after
\* it
C7_Witness ==
    /\ pc = "returned"
    /\ Len(sections) = 2
    /\ Len(matches) = 2
    /\ matches[2].method = "layout"
    /\ matches[2].position \notin LineStarts(full_text)
    /\ FindFrom(full_text, <<NL>>, matches[2].position) = -1
    /\ sections[2].section_type = matches[2].section_type
    /\ sections[1].end_position = matches[2].position

\* C8: every returned section has a confidence of at least 0 and at most
\* 0.95, whatever the provenance of its candidate.
C8_ConfidenceBounds ==
    pc # "call" =>
        \A i \in DOMAIN sections :
            sections[i].confidence >= 0 /\ sections[i].confidence <= 95

\* C8 witness: a section from a combined candidate (pattern 0.70, layout
\* 0.85) at 0.95 next to a section from a pattern candidate at 0.70
C8_Witness ==
    /\ pc = "returned"
    /\ Len(sections) = 2
    /\ \E k \in DOMAIN matches :
          /\ matches[k].method = "combined"
          /\ layout_matches[pairing[1]].confidence = 85
          /\ sections[k].confidence = 95
    /\ \E k \in DOMAIN matches :
          /\ matches[k].method = "pattern"
          /\ sections[k].confidence = 70

\* C13: a call of detect_sections with None for the full text fails fast with
\* an explicit precondition violation, an error outcome, instead of returning
\* an empty section list, so that the outcome for None differs from the
\* outcome for a text with nothing to analyze.
C13_NoneFailsFast ==
    (pc # "call" /\ full_text = None) => pc = "raised"

CleanedLength(i) ==
    TextLen(clean_section(Slice(full_text, ContentStart(full_text, matches[i]),
                                EndPos(full_text, matches, i))))

\* C16: every section returned by detect_sections has cleaned content of at
\* least the configured minimum length, 50 characters by default; a
\* deduplicated candidate whose cleaned content is shorter produces no
\* section, so that it does not count in the number of sections the quality
\* scorer sees, and the sections of the other candidates are still emitted.
C16_MinimumLength ==
    /\ pc = "returned" =>
          /\ \A j \in DOMAIN sections :
                /\ sections[j].content_length >= 50
                /\ \E i \in DOMAIN matches :
                      matches[i].section_type = sections[j].section_type
          /\ \A i \in DOMAIN matches :
                (\A j \in DOMAIN sections :
                    sections[j].section_type # matches[i].section_type)
                   => CleanedLength(i) < 50
    /\ (pc = "scored" /\ sections # <<>>) =>
          quality.sections_found = Len(sections)

\* C16 witness: of two candidates the first has cleaned content of 49
\* characters; only the section of the second is returned, and the scorer
\* counts one section
C16_Witness ==
    /\ pc = "scored"
    /\ Len(matches) = 2
    /\ CleanedLength(1) = 49
    /\ Len(sections) = 1
    /\ sections[1].section_type = matches[2].section_type
    /\ quality.sections_found = 1

(***************************************************************************)
(* Claims about a failing text cleaner (SpecCleanerFault)                  *)
(***************************************************************************)
\* the kinds of the candidates on whose content clean_section raises
FailingKinds ==
    {matches[i].section_type :
        i \in DOMAIN matches \cap detector.text_cleaner.raises_on}

\* C14: if clean_section raises while the content extractor processes the
\* span of one candidate, detect_sections does not abort: it returns, without
\* the offending section, every other candidate's section exactly as it
\* would be had the failing candidate's content merely been too short.
C14_CleanerFaultTolerated ==
    (pc # "call" /\ FailingKinds # {}) =>
        /\ pc # "raised"
        /\ sections = SelectSeq(ExtractFrom(full_text, matches, 1),
                                LAMBDA s : s.section_type \notin FailingKinds)

Alone(text, blocks) ==
    IF NotText(text) THEN <<>>
    ELSE LET lms == IF NotBlocks(blocks) THEN <<>>
                    ELSE layout_analysis(text, blocks)
             ded == SortByPosition(Deduplicated(
                        combine_matches(pattern_match(text), lms)))
         IN IF ded = <<>> THEN <<>> ELSE extract_section_content(text, ded)

NoFontData(blocks) ==
    NotBlocks(blocks) \/ \A i \in DOMAIN blocks : ~(blocks[i].font_size > 0)

\* C20: when the list of blocks is absent, empty, or holds no block with a
\* positive font size, the layout matcher contributes no candidate, so that
\* detect_sections returns what it returns without blocks and every section
\* it emits comes from a pattern candidate and has confidence exactly 0.70.
C20_NoFontDataPatternOnly ==
    (pc = "returned" /\ NoFontData(text_blocks)) =>
        /\ layout_matches = <<>>
        /\ \A i \in DOMAIN matches : matches[i].method = "pattern"
        /\ text_blocks # <<>> => sections = Alone(full_text, <<>>)
        /\ \A j \in DOMAIN sections : sections[j].confidence = 70

\* C20 witness: the only block is a bold header without a font size whose
\* text occurs in the full text; two sections are returned
C20_Witness ==
    /\ pc = "returned"
    /\ text_blocks = <<TextBlock(<<"RESULTS">>, 0, TRUE)>>
    /\ calls = <<"_pattern_match", "_layout_analysis", "_combine_matches",
                 "_deduplicate_matches", "_extract_section_content">>
    /\ Len(sections) = 2
    /\ sections[1].section_type = "results"
    /\ sections[1].confidence = 70

(***************************************************************************)
(* Claims about the pattern matcher (SpecPattern)                          *)
(***************************************************************************)
\* the offset at which the i-th line of a text starts: the lengths of the
\* lines before it, each with its terminator
RECURSIVE LineStart(_, _)
LineStart(lines, i) ==
    IF i = 1 THEN 0
    ELSE LineStart(lines, i - 1) + TextLen(lines[i - 1]) + 1

\* the patterns of a kind that match a line, as indices of its list
MatchingPatterns(line, section_type) ==
    {i \in DOMAIN detector.compiled_patterns[section_type] :
        LowerText(Strip(line)) \in detector.compiled_patterns[section_type][i]}

\* the kinds one of whose patterns matches a line, as indices of the table
MatchingKinds(line) ==
    {k \in DOMAIN all_expected : MatchingPatterns(line, all_expected[k]) # {}}

\* C21: for every line of the text the pattern matcher emits at most one
\* candidate: a line that matches patterns of more than one kind yields a
\* single candidate whose kind is the first kind in table order that
\* matches, a line matching several patterns of one kind yields one
\* candidate for that kind, and blank lines yield none.
C21_OneCandidatePerLine ==
    pc = "matched" =>
        \A lines \in {SplitLines(full_text)} :
           /\ \A m \in DOMAIN pattern_matches :
                 \E i \in DOMAIN lines :
                    pattern_matches[m].position = LineStart(lines, i)
           /\ \A i \in DOMAIN lines :
                 \A at \in {{m \in DOMAIN pattern_matches :
                               pattern_matches[m].position = LineStart(lines, i)}} :
                 \A kinds \in {MatchingKinds(lines[i])} :
                    /\ Cardinality(at) <= 1
                    /\ Strip(lines[i]) = <<>> => at = {}
                    /\ kinds = {} => at = {}
                    /\ kinds # {} =>
                          \E m \in at :
                             pattern_matches[m].section_type
                                = all_expected[Nth(kinds, 1)]

\* C21 witness: a line that three patterns of one kind match, an empty line
\* and a header line of another kind gave two candidates
C21_Witness ==
    /\ pc = "matched"
    /\ \E lines \in {SplitLines(full_text)} :
          /\ Len(lines) = 3
          /\ Cardinality(MatchingPatterns(lines[1], "results")) = 3
          /\ lines[2] = <<>>
          /\ MatchingKinds(lines[3]) # {}
    /\ Len(pattern_matches) = 2
    /\ pattern_matches[1].section_type = "results"
    /\ pattern_matches[2].section_type = "discussion"

\* C22: every candidate of the pattern matcher has an offset equal to the
\* index in the original text of the first character of the line that
\* matched (the sum over all earlier lines, blank ones included, of the line
\* length plus one terminator), so that the text from that offset to the
\* next newline, once trimmed, is the header text of the candidate.
C22_OffsetIsLineStart ==
    pc = "matched" =>
        \A lines \in {SplitLines(full_text)} :
        \A m \in DOMAIN pattern_matches :
           LET match == pattern_matches[m]
               newline == FindFrom(full_text, <<NL>>, match.position)
               line_end == IF newline = -1 THEN TextLen(full_text) ELSE newline
           IN /\ \E i \in DOMAIN lines :
                    /\ match.position = LineStart(lines, i)
                    /\ match.header_text = Strip(lines[i])
              /\ Strip(Slice(full_text, match.position, line_end))
                    = match.header_text

\* C22 witness: an indented header line after an empty line and a line of
\* white space has the offset 3
C22_Witness ==
    /\ pc = "matched"
    /\ full_text = <<NL, SP, NL, SP, "Methods">>
    /\ pattern_matches =
          <<SectionMatch("methodology", <<"Methods">>, 3, 70, "pattern", 0, FALSE)>>

(***************************************************************************)
(* Claims about the content extractor (Spec)                               *)
(***************************************************************************)
\* the deduplicated candidate a returned section comes from: the only one
\* of its kind
CandidateOf(j) ==
    CHOOSE i \in DOMAIN matches :
        matches[i].section_type = sections[j].section_type

\* C23: the start_position of a section is the index immediately after the
\* first newline found at or after the offset of its candidate; when the
\* text has no newline at or after the offset, it is the offset advanced by
\* the length of the header text of the candidate.
C23_StartAfterHeaderLine ==
    pc = "returned" =>
        \A j \in DOMAIN sections :
            LET match == matches[CandidateOf(j)]
                newline == FindFrom(full_text, <<NL>>, match.position)
            IN sections[j].start_position =
                 IF newline # -1 THEN newline + 1
                 ELSE match.position + TextLen(match.header_text)

\* C24: the end_position of every emitted section is the offset of the next
\* deduplicated candidate in ascending offset order, whether or not that
\* candidate yields a section itself, and the length of the text for the
\* last candidate; the text that follows a candidate dropped for being too
\* short lies in the span of no emitted section.
C24_EndAtNextCandidate ==
    pc = "returned" =>
        /\ \A j \in DOMAIN sections :
              \A i \in {CandidateOf(j)} :
                 sections[j].end_position =
                    IF i < Len(matches) THEN matches[i + 1].position
                    ELSE TextLen(full_text)
        /\ \A d \in DOMAIN matches :
              (\A j \in DOMAIN sections :
                  sections[j].section_type # matches[d].section_type) =>
                 \A j \in DOMAIN sections :
                    \/ sections[j].end_position <= matches[d].position
                    \/ sections[j].start_position >=
                          (IF d < Len(matches) THEN matches[d + 1].position
                           ELSE TextLen(full_text))

\* C24 witness: the first of two candidates gave a section that ends at the
\* offset of the second, which gave none although text follows its header
C24_Witness ==
    /\ pc = "returned"
    /\ Len(matches) = 2
    /\ Len(sections) = 1
    /\ sections[1].section_type = matches[1].section_type
    /\ sections[1].end_position = matches[2].position
    /\ matches[2].position + TextLen(matches[2].header_text) + 1
          < TextLen(full_text)

(***************************************************************************)
(* Claims about the layout matcher (SpecLayout)                            *)
(***************************************************************************)
\* the font size of fragment i is at or above 1.2 times the mean of the
\* positive font sizes of the fragments
AtThreshold(i) ==
    LET positive == {k \in DOMAIN text_blocks : text_blocks[k].font_size > 0}
    IN /\ positive # {}
       /\ 10 * text_blocks[i].font_size * Cardinality(positive)
             >= 12 * SumFonts(text_blocks)

\* candidate m carries the trimmed text, font size and bold flag of fragment i
CarriesFragment(m, i) ==
    /\ layout_matches[m].header_text = Strip(text_blocks[i].text)
    /\ layout_matches[m].font_size = text_blocks[i].font_size
    /\ layout_matches[m].is_bold = text_blocks[i].is_bold

\* C25: every candidate the layout matcher emits for a fragment has
\* confidence 0.50, plus 0.20 if the font size of the fragment is at or above
\* 1.2 times the mean of the positive font sizes, plus 0.15 if the fragment
\* is bold, and carries the font size and bold flag of the fragment; a
\* fragment that is neither bold nor at or above the threshold, or whose
\* trimmed text is longer than 100 characters, yields no candidate.
C25_LayoutConfidence ==
    pc = "analysed" =>
        /\ \A m \in DOMAIN layout_matches :
              \E i \in DOMAIN text_blocks :
                 /\ CarriesFragment(m, i)
                 /\ layout_matches[m].confidence =
                       50 + (IF AtThreshold(i) THEN 20 ELSE 0)
                          + (IF text_blocks[i].is_bold THEN 15 ELSE 0)
        /\ \A i \in DOMAIN text_blocks :
              (\/ ~(text_blocks[i].is_bold \/ AtThreshold(i))
               \/ TextLen(Strip(text_blocks[i].text)) > 100) =>
                 \A m \in DOMAIN layout_matches : ~CarriesFragment(m, i)

\* C25 witness: a bold header whose font size, 12, is exactly 1.2 times the
\* mean, 10, gave a candidate of confidence 0.85
C25_Witness ==
    /\ pc = "analysed"
    /\ text_blocks = <<TextBlock(<<"Results">>, 12, TRUE),
                       TextBlock(<<ShortProse>>, 8, FALSE)>>
    /\ Len(layout_matches) = 1
    /\ layout_matches[1].confidence = 85
    /\ layout_matches[1].font_size = 12
    /\ layout_matches[1].is_bold

\* the index in the text of the first case-insensitive occurrence of sub,
\* -1 when there is none
FirstOccurrence(text, sub) ==
    LET off == Offsets(text, 0)
        hits == {i \in 1..(Len(text) - Len(sub) + 1) :
                    LowerText(SubSeq(text, i, i + Len(sub) - 1)) = LowerText(sub)}
    IN IF hits = {} THEN -1
       ELSE off[CHOOSE i \in hits : \A j \in hits : i <= j]

\* C26: every candidate of the layout matcher has an offset equal to the
\* index of the first case-insensitive occurrence of the trimmed text of its
\* fragment anywhere in the full text, so that two eligible fragments with
\* the same text get the same offset, and a classified fragment whose text
\* does not occur in the full text yields no candidate.
C26_OffsetOfFirstOccurrence ==
    pc = "analysed" =>
        /\ \A m \in DOMAIN layout_matches :
              layout_matches[m].position
                 = FirstOccurrence(full_text, layout_matches[m].header_text)
        /\ \A m, n \in DOMAIN layout_matches :
              layout_matches[m].header_text = layout_matches[n].header_text
                 => layout_matches[m].position = layout_matches[n].position
        /\ \A i \in DOMAIN text_blocks :
              FirstOccurrence(full_text, Strip(text_blocks[i].text)) = -1 =>
                 \A m \in DOMAIN layout_matches :
                    layout_matches[m].header_text # Strip(text_blocks[i].text)

\* C28: every candidate of the layout matcher has a confidence of 0.65 (bold
\* only), 0.70 (large font only) or 0.85 (both); the base confidence 0.50 is
\* never emitted, a fragment that is neither large nor bold being skipped.
C28_LayoutConfidenceSet ==
    pc = "analysed" =>
        \A m \in DOMAIN layout_matches :
            /\ layout_matches[m].confidence \in {65, 70, 85}
            /\ layout_matches[m].confidence # 50

\* C28 witness: of two headers in the same font size, both found in the
\* text, the bold one gave a candidate of confidence 0.65 and the other none
C28_Witness ==
    /\ pc = "analysed"
    /\ text_blocks = <<TextBlock(<<"Results">>, 12, TRUE),
                       TextBlock(<<"RESULTS">>, 12, FALSE)>>
    /\ FirstOccurrence(full_text, <<"RESULTS">>) # -1
    /\ Len(layout_matches) = 1
    /\ layout_matches[1].confidence = 65

(***************************************************************************)
(* Claims about the confidences of whole runs (Spec)                       *)
(***************************************************************************)
\* C27: in any run of detect_sections every candidate with provenance
\* "combined" has confidence exactly 0.95: the pattern confidence is always
\* 0.70 and every layout confidence at least 0.65, so that pattern + layout
\* - 0.20 is at least 1.15 and the cap of 0.95 always applies.
C27_CombinedAlwaysCapped ==
    pc # "call" =>
        /\ \A k \in DOMAIN pattern_matches : pattern_matches[k].confidence = 70
        /\ \A k \in DOMAIN layout_matches : layout_matches[k].confidence >= 65
        /\ \A k \in DOMAIN pairing :
              pairing[k] # 0 =>
                 pattern_matches[k].confidence
                   + layout_matches[pairing[k]].confidence - 20 >= 115
        /\ \A k \in DOMAIN combined :
              combined[k].method = "combined" => combined[k].confidence = 95
        /\ \A k \in DOMAIN matches :
              matches[k].method = "combined" => matches[k].confidence = 95

\* C27 witness: a pattern match paired with a layout match of the lowest
\* confidence, 0.65, gave a combined candidate of 0.95
C27_Witness ==
    /\ pc = "returned"
    /\ \E k \in DOMAIN pairing :
          /\ pairing[k] # 0
          /\ layout_matches[pairing[k]].confidence = 65
          /\ combined[k].method = "combined"
          /\ combined[k].confidence = 95
          /\ \E i \in DOMAIN matches : matches[i] = combined[k]

(***************************************************************************)
(* Claims about ties between candidates (SpecReconcile)                    *)
(***************************************************************************)
PatternDerived(match) == match.method \in {"pattern", "combined"}

\* C29: when a candidate derived from a pattern match (provenance pattern or
\* combined) and an unpaired layout candidate of the same kind have equal
\* confidence, the highest of their kind, the one kept after deduplication
\* is the pattern-derived candidate, because the reconciler emits all
\* pattern-derived candidates before any unpaired layout candidate.
C29_TieKeepsPatternDerived ==
    /\ pc # "reconcile" =>
          \A k, j \in DOMAIN combined :
             (PatternDerived(combined[k]) /\ combined[j].method = "layout")
                => k < j
    /\ pc = "deduplicated" =>
          \A k, j \in DOMAIN combined :
             (/\ PatternDerived(combined[k])
              /\ combined[j].method = "layout"
              /\ combined[k].section_type = combined[j].section_type
              /\ combined[k].confidence = combined[j].confidence
              /\ \A x \in DOMAIN combined :
                    combined[x].section_type = combined[k].section_type
                       => combined[x].confidence <= combined[k].confidence)
                => \E i \in DOMAIN matches :
                      /\ matches[i].section_type = combined[k].section_type
                      /\ PatternDerived(matches[i])
                      /\ matches[i].confidence = combined[k].confidence

\* C29 witness: a pattern match of confidence 0.70 and a layout match of the
\* same kind and confidence exactly 500 characters away, hence unpaired;
\* the pattern match is the candidate kept
C29_Witness ==
    /\ pc = "deduplicated"
    /\ Len(pattern_matches) = 1
    /\ Len(layout_matches) = 1
    /\ pattern_matches[1].section_type = layout_matches[1].section_type
    /\ pattern_matches[1].confidence = 70
    /\ layout_matches[1].confidence = 70
    /\ Distance(pattern_matches[1], layout_matches[1]) = 500
    /\ combined = <<pattern_matches[1], layout_matches[1]>>
    /\ matches = <<pattern_matches[1]>>

(***************************************************************************)
(* Claims about the level of returnable lists (SpecReturnable)             *)
(***************************************************************************)
\* at most 7 sections, one per kind, confidences between 0.65 and 0.95
Returnable(found_sections) ==
    /\ Len(found_sections) <= 7
    /\ \A i, j \in DOMAIN found_sections :
          i # j => found_sections[i].section_type # found_sections[j].section_type
    /\ \A i \in DOMAIN found_sections :
          found_sections[i].confidence \in 65..95

\* C30: for every section list detect_sections can return (at most 7
\* sections, one per kind, confidences between 0.65 and 0.95) the level is
\* "high" only if the list has at least 5 sections and "low" only if it has
\* at most 2; when all confidences are 0.70 the level is "low" for 1-2
\* sections, "medium" for 3-5 and "high" for 6-7.
C30_LevelByCount ==
    (pc = "scored" /\ Returnable(sections)) =>
        /\ quality.level = "high" => Len(sections) >= 5
        /\ quality.level = "low" => Len(sections) <= 2
        /\ (sections # <<>> /\ \A i \in DOMAIN sections :
                                  sections[i].confidence = 70) =>
              quality.level = CASE Len(sections) \in 1..2 -> "low"
                                [] Len(sections) \in 3..5 -> "medium"
                                [] Len(sections) \in 6..7 -> "high"

\* C30 witness: five sections of confidence 0.70 and 0.95 are scored
\* "high", which no list of four sections is
C30_Witness ==
    /\ pc = "scored"
    /\ Len(sections) = 5
    /\ sections[1].confidence = 70
    /\ sections[2].confidence = 95
    /\ quality.level = "high"

====
